---- MODULE Spec2Model ----
(***************************************************************************)
(* Run configurations of spyder/preferences/runconfig.py: the              *)
(* RunConfiguration record, the bounded history kept in the 'run' section  *)
(* of CONF, and the two dialogs that save into it.                         *)
(*                                                                         *)
(* Python values: True/False are TRUE/FALSE, str is a string, None is the  *)
(* string "None" (only the never-assigned wdir / wdir_enabled hold it), a  *)
(* dict is a function whose DOMAIN is the set of its keys, a list is a     *)
(* sequence.                                                               *)
(***************************************************************************)
EXTENDS Integers, Sequences, FiniteSets, TLC

VARIABLES
    CONF,            \* 'run' section of the configuration store: default options
    history,         \* CONF 'run'/'history': the cap on the history length
    configurations,  \* CONF 'run'/'configurations': the persisted history
    files,           \* filesystem: the names that are existing regular files
    one,             \* the RunConfigOneDialog (single file version)
    multi,           \* the RunConfigDialog (multiple file version)
    options,         \* the options mapping last handed to RunConfiguration.set
    runconf,         \* a RunConfiguration object
    op,              \* the call that ran last ("event": the user or the environment acted)
    arg,             \* the filename it was called with, if any
    ret,             \* what it returned (and whether it raised)
    nedits           \* how many widget edits the user has made

vars == <<CONF, history, configurations, files, one, multi, options, runconf,
          op, arg, ret, nedits>>

----------------------------------------------------------------------------
(* Bounds *)

MaxPrefChanges == 1  \* changes made on the Run preferences page beforehand
MaxCap == 2          \* largest value of the 'history' setting
MaxEdits == 1        \* user edits of dialog widgets in one run

----------------------------------------------------------------------------
(* Option names, runconfig.py lines 34-41 *)

CURRENT_INTERPRETER_OPTION == "default/interpreter/current"
DEDICATED_INTERPRETER_OPTION == "default/interpreter/dedicated"
SYSTERM_INTERPRETER_OPTION == "default/interpreter/systerm"
WDIR_USE_SCRIPT_DIR_OPTION == "default/wdir/use_script_directory"
WDIR_USE_CWD_DIR_OPTION == "default/wdir/use_cwd_directory"
WDIR_USE_FIXED_DIR_OPTION == "default/wdir/use_fixed_directory"

None == "None"

InterpreterOptions ==
    {CURRENT_INTERPRETER_OPTION, DEDICATED_INTERPRETER_OPTION,
     SYSTERM_INTERPRETER_OPTION}

WdirOptions ==
    {WDIR_USE_SCRIPT_DIR_OPTION, WDIR_USE_CWD_DIR_OPTION,
     WDIR_USE_FIXED_DIR_OPTION}

CheckboxOptions ==
    {"interact", "post_mortem", "clear_namespace", "console_namespace"}

\* CONF.get('run', key, default)
CONF_get(conf, key, default) ==
    IF key \in DOMAIN conf THEN conf[key] ELSE default

\* dict.get(key, default)
dict_get(d, key, default) ==
    IF key \in DOMAIN d THEN d[key] ELSE default

\* d[k] = v on a copy of d
dict_with(d, k, v) ==
    [x \in DOMAIN d \cup {k} |-> IF x = k THEN v ELSE d[x]]

\* A store in which none of the default options was ever written.
EmptyCONF == [k \in {} |-> TRUE]

\* RunConfigPage.setup_page: what a radio button or checkbox of the page shows
\* for its option (the stored value, else the default the page names).
RunConfigPage_shown(conf, k) ==
    CONF_get(conf, k,
             k \in {CURRENT_INTERPRETER_OPTION, WDIR_USE_SCRIPT_DIR_OPTION})

\* RunConfigPage: the user picks another radio button of a QButtonGroup (the
\* group unchecks the others) or toggles a checkbox, and applies the page.
RunConfigPage_changes(conf) ==
    {[x \in DOMAIN conf \cup InterpreterOptions |->
        IF x \in InterpreterOptions THEN x = k ELSE conf[x]] :
        k \in {i \in InterpreterOptions : ~RunConfigPage_shown(conf, i)}}
    \cup
    {[x \in DOMAIN conf \cup WdirOptions |->
        IF x \in WdirOptions THEN x = k ELSE conf[x]] :
        k \in {w \in WdirOptions : ~RunConfigPage_shown(conf, w)}}
    \cup
    {dict_with(conf, k, ~RunConfigPage_shown(conf, k)) : k \in CheckboxOptions}

\* The stores the page can leave behind in at most n changes.
RECURSIVE StoresUpTo(_)
StoresUpTo(n) ==
    IF n = 0 THEN {EmptyCONF}
    ELSE LET S == StoresUpTo(n - 1) IN
         S \cup UNION {RunConfigPage_changes(c) : c \in S}

\* CONF.get('run', 'defaultconfiguration', default={}): nothing sets the key
defaultconfiguration == [k \in {} |-> TRUE]

----------------------------------------------------------------------------
(* class RunConfiguration *)

\* the attributes as __init__ leaves them before it calls set()
RunConfiguration_blank ==
    [args |-> None, args_enabled |-> None, wdir |-> None,
     wdir_enabled |-> None, current |-> None, systerm |-> None,
     interact |-> None, post_mortem |-> None, python_args |-> None,
     python_args_enabled |-> None, clear_namespace |-> None,
     console_namespace |-> None, file_dir |-> None, cw_dir |-> None,
     fixed_dir |-> None, dir |-> None]

\* set() with the key read for args_enabled and the fallback of the systerm
\* option as parameters (used to state what a slip in either does)
RunConfiguration_set_reading(self, o, conf, enabled_key, systerm_fallback) ==
    [self EXCEPT
        !.args = dict_get(o, "args", ""),
        !.args_enabled = dict_get(o, enabled_key, FALSE),
        !.current = dict_get(o, "current",
                        CONF_get(conf, CURRENT_INTERPRETER_OPTION, TRUE)),
        !.systerm = dict_get(o, "systerm",
                        CONF_get(conf, SYSTERM_INTERPRETER_OPTION,
                                 systerm_fallback)),
        !.interact = dict_get(o, "interact",
                        CONF_get(conf, "interact", FALSE)),
        !.post_mortem = dict_get(o, "post_mortem",
                        CONF_get(conf, "post_mortem", FALSE)),
        !.python_args = dict_get(o, "python_args", ""),
        !.python_args_enabled = dict_get(o, "python_args/enabled", FALSE),
        !.clear_namespace = dict_get(o, "clear_namespace",
                        CONF_get(conf, "clear_namespace", FALSE)),
        !.console_namespace = dict_get(o, "console_namespace",
                        CONF_get(conf, "console_namespace", FALSE)),
        !.file_dir = dict_get(o, "file_dir",
                        CONF_get(conf, WDIR_USE_SCRIPT_DIR_OPTION, TRUE)),
        !.cw_dir = dict_get(o, "cw_dir",
                        CONF_get(conf, WDIR_USE_CWD_DIR_OPTION, FALSE)),
        !.fixed_dir = dict_get(o, "fixed_dir",
                        CONF_get(conf, WDIR_USE_FIXED_DIR_OPTION, FALSE)),
        !.dir = dict_get(o, "dir", "")]

\* slip: the systerm option falls back to True, like the current option
RunConfiguration_set_systerm_slip(self, o, conf) ==
    RunConfiguration_set_reading(self, o, conf, "args/enabled", TRUE)

\* slip: args_enabled is read under the attribute's name, not under the key
\* get() writes
RunConfiguration_set_key_slip(self, o, conf) ==
    RunConfiguration_set_reading(self, o, conf, "args_enabled", FALSE)

RunConfiguration_set(self, o, conf) ==
    [self EXCEPT
        !.args = dict_get(o, "args", ""),
        !.args_enabled = dict_get(o, "args/enabled", FALSE),
        !.current = dict_get(o, "current",
                        CONF_get(conf, CURRENT_INTERPRETER_OPTION, TRUE)),
        !.systerm = dict_get(o, "systerm",
                        CONF_get(conf, SYSTERM_INTERPRETER_OPTION, FALSE)),
        !.interact = dict_get(o, "interact",
                        CONF_get(conf, "interact", FALSE)),
        !.post_mortem = dict_get(o, "post_mortem",
                        CONF_get(conf, "post_mortem", FALSE)),
        !.python_args = dict_get(o, "python_args", ""),
        !.python_args_enabled = dict_get(o, "python_args/enabled", FALSE),
        !.clear_namespace = dict_get(o, "clear_namespace",
                        CONF_get(conf, "clear_namespace", FALSE)),
        !.console_namespace = dict_get(o, "console_namespace",
                        CONF_get(conf, "console_namespace", FALSE)),
        !.file_dir = dict_get(o, "file_dir",
                        CONF_get(conf, WDIR_USE_SCRIPT_DIR_OPTION, TRUE)),
        !.cw_dir = dict_get(o, "cw_dir",
                        CONF_get(conf, WDIR_USE_CWD_DIR_OPTION, FALSE)),
        !.fixed_dir = dict_get(o, "fixed_dir",
                        CONF_get(conf, WDIR_USE_FIXED_DIR_OPTION, FALSE)),
        !.dir = dict_get(o, "dir", "")]

RunConfiguration_init(conf) ==
    RunConfiguration_set(RunConfiguration_blank, defaultconfiguration, conf)

\* slip: 'dir' is serialized from the never-assigned wdir attribute
RunConfiguration_get_wdir_slip(self) ==
    [k \in {"args/enabled", "args", "workdir/enabled", "workdir", "current",
            "systerm", "interact", "post_mortem", "python_args/enabled",
            "python_args", "clear_namespace", "console_namespace",
            "file_dir", "cw_dir", "fixed_dir", "dir"} |->
        CASE k = "args/enabled" -> self.args_enabled
          [] k = "args" -> self.args
          [] k = "workdir/enabled" -> self.wdir_enabled
          [] k = "current" -> self.current
          [] k = "systerm" -> self.systerm
          [] k = "interact" -> self.interact
          [] k = "post_mortem" -> self.post_mortem
          [] k = "python_args/enabled" -> self.python_args_enabled
          [] k = "python_args" -> self.python_args
          [] k = "clear_namespace" -> self.clear_namespace
          [] k = "console_namespace" -> self.console_namespace
          [] k = "file_dir" -> self.file_dir
          [] k = "cw_dir" -> self.cw_dir
          [] k = "fixed_dir" -> self.fixed_dir
          [] OTHER -> self.wdir]

RunConfiguration_get(self) ==
    [k \in {"args/enabled", "args", "workdir/enabled", "workdir", "current",
            "systerm", "interact", "post_mortem", "python_args/enabled",
            "python_args", "clear_namespace", "console_namespace",
            "file_dir", "cw_dir", "fixed_dir", "dir"} |->
        CASE k = "args/enabled" -> self.args_enabled
          [] k = "args" -> self.args
          [] k = "workdir/enabled" -> self.wdir_enabled
          [] k = "workdir" -> self.wdir
          [] k = "current" -> self.current
          [] k = "systerm" -> self.systerm
          [] k = "interact" -> self.interact
          [] k = "post_mortem" -> self.post_mortem
          [] k = "python_args/enabled" -> self.python_args_enabled
          [] k = "python_args" -> self.python_args
          [] k = "clear_namespace" -> self.clear_namespace
          [] k = "console_namespace" -> self.console_namespace
          [] k = "file_dir" -> self.file_dir
          [] k = "cw_dir" -> self.cw_dir
          [] k = "fixed_dir" -> self.fixed_dir
          [] OTHER -> self.dir]

get_working_directory(self) == self.dir

\* slip: the flag is not consulted
get_arguments_ungated(self) == self.args

get_arguments(self) ==
    IF self.args_enabled THEN self.args ELSE ""

get_python_arguments(self) ==
    IF self.python_args_enabled THEN self.python_args ELSE ""

----------------------------------------------------------------------------
(* Inputs *)

Files == {"a.py", "b.py"}
ArgStrings == {"", "-v"}
DirStrings == {"", "/d", "/nodir"}
Dirs == {"/d"}                      \* the existing directories

isfile(fs, filename) == filename \in fs
isdir(path) == path \in Dirs

BoolKeys ==
    {"args/enabled", "current", "systerm", "interact", "post_mortem",
     "python_args/enabled", "clear_namespace", "console_namespace",
     "file_dir", "cw_dir", "fixed_dir"}
ArgKeys == {"args", "python_args"}

\* The key sets of the options mappings handed to set(): no key, one key, or
\* the keys of one group of the dialog.
OptionKeySets ==
    {{}} \cup {{k} : k \in BoolKeys \cup ArgKeys \cup {"dir"}}
    \cup {{"args/enabled", "args"}, {"python_args/enabled", "python_args"},
          {"current", "systerm"}, {"file_dir", "cw_dir", "fixed_dir"},
          {"fixed_dir", "dir"}}

OptionValues(k) ==
    IF k \in BoolKeys THEN BOOLEAN
    ELSE IF k \in ArgKeys THEN ArgStrings ELSE DirStrings

RECURSIVE MappingsOver(_)
MappingsOver(D) ==
    IF D = {} THEN {defaultconfiguration}
    ELSE LET k == CHOOSE x \in D : TRUE IN
         UNION {{dict_with(m, k, v) : v \in OptionValues(k)} :
                    m \in MappingsOver(D \ {k})}

OptionsInputs == UNION {MappingsOver(D) : D \in OptionKeySets}

\* What a call hands back: a value, None, or an exception that propagates.
NoReturn == [raised |-> "", none |-> TRUE, value |-> None]
Return(v) == [raised |-> "", none |-> FALSE, value |-> v]
Raise(e) == [raised |-> e, none |-> FALSE, value |-> None]

NoDialog == [state |-> "none"]
EmptyList == [kind |-> "list", items |-> <<>>]

----------------------------------------------------------------------------
(* The history: CONF 'run'/'configurations' under the cap 'history' *)

\* A stored element that is a (filename, options) tuple.
Pair(filename, o) == [shape |-> "pair", filename |-> filename, options |-> o]

\* Elements a damaged store can hold instead: a tuple of one or of three
\* items, a value that is not iterable, a string of two characters.
Malformed(shape) ==
    [shape |-> shape, filename |-> None, options |-> defaultconfiguration]

List(items) == [kind |-> "list", items |-> items]

\* a stored value that is not iterable at all
Scalar == [kind |-> "scalar", items |-> <<>>]

Min(a, b) == IF a < b THEN a ELSE b
Max(a, b) == IF a > b THEN a ELSE b

\* seq[:n] of Python, n of either sign
slice_to(seq, n) ==
    IF n >= 0 THEN SubSeq(seq, 1, Min(n, Len(seq)))
    ELSE SubSeq(seq, 1, Max(Len(seq) + n, 0))

\* [(filename, options) for filename, options in items if osp.isfile(filename)]
\* from element i on: unpacking a tuple that has not two items raises
\* ValueError, unpacking what is not iterable raises TypeError, a string of
\* two characters unpacks into two strings.
RECURSIVE comprehension(_, _, _)
comprehension(items, fs, i) ==
    IF i > Len(items) THEN Return(<<>>)
    ELSE LET e == items[i] IN
         IF e.shape \in {"short", "long"} THEN Raise("ValueError")
         ELSE IF e.shape = "scalar" THEN Raise("TypeError")
         ELSE LET rest == comprehension(items, fs, i + 1) IN
              IF rest.raised # "" THEN rest
              ELSE IF e.shape = "pair" /\ isfile(fs, e.filename)
                   THEN Return(<<Pair(e.filename, e.options)>> \o rest.value)
                   ELSE rest

\* What a function that reads or writes the store leaves behind.
Outcome(r, stored) == [ret |-> r, configurations |-> stored]

\* slip: the cap is applied to the stored list before the filter
get_run_configurations_cap_first(stored, fs, cap) ==
    IF stored.kind # "list" THEN Outcome(Raise("TypeError"), stored)
    ELSE LET r == comprehension(slice_to(stored.items, cap), fs, 1) IN
         IF r.raised = "ValueError" THEN Outcome(Return(<<>>), List(<<>>))
         ELSE IF r.raised # "" THEN Outcome(r, stored)
         ELSE Outcome(r, stored)

\* slip: the entries of missing files are dropped from the store as well
get_run_configurations_pruning(stored, fs, cap) ==
    IF stored.kind # "list" THEN Outcome(Raise("TypeError"), stored)
    ELSE LET r == comprehension(stored.items, fs, 1) IN
         IF r.raised = "ValueError" THEN Outcome(Return(<<>>), List(<<>>))
         ELSE IF r.raised # "" THEN Outcome(r, stored)
         ELSE Outcome(Return(slice_to(r.value, cap)),
                      List(slice_to(r.value, cap)))

\* _get_run_configurations(): iterating a stored value that is no list raises
\* TypeError; only ValueError is caught, and resets the stored history.
get_run_configurations(stored, fs, cap) ==
    IF stored.kind # "list" THEN Outcome(Raise("TypeError"), stored)
    ELSE LET r == comprehension(stored.items, fs, 1) IN
         IF r.raised = "ValueError" THEN Outcome(Return(<<>>), List(<<>>))
         ELSE IF r.raised # "" THEN Outcome(r, stored)
         ELSE Outcome(Return(slice_to(r.value, cap)), stored)

\* slip: the list is stored whole
set_run_configurations_uncut(confs, cap) == List(confs)

\* _set_run_configurations(configurations): the new stored value
set_run_configurations(confs, cap) == List(slice_to(confs, cap))

\* slip: the last matching entry wins
first_match_last(confs, fname) ==
    IF \E i \in 1..Len(confs) : confs[i].filename = fname
    THEN CHOOSE i \in 1..Len(confs) :
            /\ confs[i].filename = fname
            /\ \A j \in (i + 1)..Len(confs) : confs[j].filename # fname
    ELSE 0

\* for filename, options in configurations: if fname == filename: ...
\* the index of the entry the loop stops at, 0 when it runs to the end
first_match(confs, fname) ==
    IF \E i \in 1..Len(confs) : confs[i].filename = fname
    THEN CHOOSE i \in 1..Len(confs) :
            /\ confs[i].filename = fname
            /\ \A j \in 1..(i - 1) : confs[j].filename # fname
    ELSE 0

\* slip: the record found is returned without its options set
get_run_configuration_unset(fname, stored, fs, cap, conf) ==
    LET got == get_run_configurations(stored, fs, cap) IN
    IF got.ret.raised # "" THEN got
    ELSE LET i == first_match(got.ret.value, fname) IN
         IF i = 0 THEN Outcome(NoReturn, got.configurations)
         ELSE Outcome(Return(RunConfiguration_init(conf)), got.configurations)

\* get_run_configuration(fname)
get_run_configuration(fname, stored, fs, cap, conf) ==
    LET got == get_run_configurations(stored, fs, cap) IN
    IF got.ret.raised # "" THEN got
    ELSE LET i == first_match(got.ret.value, fname) IN
         IF i = 0 THEN Outcome(NoReturn, got.configurations)
         ELSE Outcome(Return(RunConfiguration_set(RunConfiguration_init(conf),
                                 got.ret.value[i].options, conf)),
                      got.configurations)

----------------------------------------------------------------------------
(* class RunConfigOptions: the widgets of one run configuration *)

InterpreterRadios == {"current_radio", "dedicated_radio", "systerm_radio"}
WdirRadios == {"file_dir_radio", "cwd_radio", "fixed_dir_radio"}

\* RunConfigOptions.__init__: nothing checked, the line edits empty
RunConfigOptions_init(conf) ==
    [dir |-> None, runconf |-> RunConfiguration_init(conf),
     current_radio |-> FALSE, dedicated_radio |-> FALSE,
     systerm_radio |-> FALSE, clear_var_cb |-> FALSE,
     console_ns_cb |-> FALSE, post_mortem_cb |-> FALSE, clo_cb |-> FALSE,
     clo_edit |-> "", file_dir_radio |-> FALSE, cwd_radio |-> FALSE,
     fixed_dir_radio |-> FALSE, wd_edit |-> "", interact_cb |-> FALSE,
     pclo_cb |-> FALSE, pclo_edit |-> ""]

\* QRadioButton.setChecked on a button of a group box: the radio buttons of
\* one parent are auto-exclusive, checking one unchecks the others, and the
\* checked one cannot be unchecked.
setChecked(w, group, button, checked) ==
    IF checked
    THEN [x \in DOMAIN w |-> IF x \in group THEN x = button ELSE w[x]]
    ELSE w

RunConfigOptions_set(w, o, conf) ==
    LET rc == RunConfiguration_set(w.runconf, o, conf)
        w1 == [w EXCEPT !.runconf = rc,
                        !.clo_cb = rc.args_enabled,
                        !.clo_edit = rc.args]
        w2 == IF rc.current
              THEN setChecked(w1, InterpreterRadios, "current_radio", TRUE)
              ELSE IF rc.systerm
              THEN setChecked(w1, InterpreterRadios, "systerm_radio", TRUE)
              ELSE setChecked(w1, InterpreterRadios, "dedicated_radio", TRUE)
        w3 == [w2 EXCEPT !.interact_cb = rc.interact,
                         !.post_mortem_cb = rc.post_mortem,
                         !.pclo_cb = rc.python_args_enabled,
                         !.pclo_edit = rc.python_args,
                         !.clear_var_cb = rc.clear_namespace,
                         !.console_ns_cb = rc.console_namespace]
        w4 == setChecked(w3, WdirRadios, "file_dir_radio", rc.file_dir)
        w5 == setChecked(w4, WdirRadios, "cwd_radio", rc.cw_dir)
        w6 == setChecked(w5, WdirRadios, "fixed_dir_radio", rc.fixed_dir)
    IN [w6 EXCEPT !.dir = rc.dir, !.wd_edit = rc.dir]

\* RunConfigOptions.get(): the record is refreshed from the widgets and
\* serialized; the widget keeps the refreshed record.
RunConfigOptions_runconf(w) ==
    [w.runconf EXCEPT
        !.args_enabled = w.clo_cb,
        !.args = w.clo_edit,
        !.current = w.current_radio,
        !.systerm = w.systerm_radio,
        !.interact = w.interact_cb,
        !.post_mortem = w.post_mortem_cb,
        !.python_args_enabled = w.pclo_cb,
        !.python_args = w.pclo_edit,
        !.clear_namespace = w.clear_var_cb,
        !.console_namespace = w.console_ns_cb,
        !.file_dir = w.file_dir_radio,
        !.cw_dir = w.cwd_radio,
        !.fixed_dir = w.fixed_dir_radio,
        !.dir = w.wd_edit]

RunConfigOptions_get(w) ==
    [widget |-> [w EXCEPT !.runconf = RunConfigOptions_runconf(w)],
     value |-> RunConfiguration_get(RunConfigOptions_runconf(w))]

\* RunConfigOptions.is_valid() (it shows a message box when it returns False)
is_valid(w) == ~w.fixed_dir_radio \/ isdir(w.wd_edit)

\* RunConfigOptions.select_directory(): the directory the user picked in the
\* file dialog, '' when the user cancelled it
select_directory(w, directory) ==
    IF directory # "" THEN [w EXCEPT !.wd_edit = directory, !.dir = directory]
    ELSE w

\* What the user does to the widgets of one page in one step. The inputs are
\* those of the working directory group and of the command line options:
\* click a radio button of the group, type a path into the line edit (enabled
\* by the fixed-directory radio button), pick a directory with the browse
\* button, toggle the options checkbox, type options (enabled by the checkbox).
UserEdits(w) ==
    {setChecked(w, WdirRadios, b, TRUE) : b \in WdirRadios}
    \cup {[w EXCEPT !.wd_edit = t] :
            t \in {x \in DirStrings : w.fixed_dir_radio}}
    \cup {select_directory(w, d) : d \in Dirs \cup {""}}
    \cup {[w EXCEPT !.clo_cb = ~w.clo_cb]}
    \cup {[w EXCEPT !.clo_edit = t] : t \in {x \in ArgStrings : w.clo_cb}}

----------------------------------------------------------------------------
(* The RunConfiguration object on its own: construction, set, get and the   *)
(* argument getters, under every store of the preferences page.            *)

InitRC ==
    /\ CONF \in StoresUpTo(MaxPrefChanges)
    /\ history = MaxCap
    /\ configurations = EmptyList
    /\ files = {}
    /\ one = NoDialog
    /\ multi = NoDialog
    /\ options = defaultconfiguration
    /\ runconf = RunConfiguration_init(CONF)
    /\ op = "__init__"
    /\ arg = None
    /\ ret = NoReturn
    /\ nedits = 0

HistoryUnchanged ==
    UNCHANGED <<history, configurations, files, one, multi, arg, nedits>>

\* runconf.set(o) for a mapping o of the caller, on the fresh object or on
\* one that was set before
RC_set ==
    /\ op \in {"__init__", "get"}
    /\ \E o \in OptionsInputs :
        /\ options' = o
        /\ runconf' = RunConfiguration_set(runconf, o, CONF)
    /\ op' = "set"
    /\ ret' = NoReturn
    /\ UNCHANGED CONF
    /\ HistoryUnchanged

RC_get ==
    /\ op = "set"
    /\ op' = "get"
    /\ ret' = Return(RunConfiguration_get(runconf))
    /\ UNCHANGED <<CONF, options, runconf>>
    /\ HistoryUnchanged

RC_get_arguments ==
    /\ op = "set"
    /\ op' = "get_arguments"
    /\ ret' = Return(get_arguments(runconf))
    /\ UNCHANGED <<CONF, options, runconf>>
    /\ HistoryUnchanged

RC_get_python_arguments ==
    /\ op = "set"
    /\ op' = "get_python_arguments"
    /\ ret' = Return(get_python_arguments(runconf))
    /\ UNCHANGED <<CONF, options, runconf>>
    /\ HistoryUnchanged

\* The preferences page is applied between a set() and the next one.
RunConfigPage_apply ==
    /\ op = "set"
    /\ CONF' \in RunConfigPage_changes(CONF)
    /\ op' = "apply_settings"
    /\ ret' = NoReturn
    /\ UNCHANGED <<options, runconf>>
    /\ HistoryUnchanged

\* runconf.set(runconf.get())
RC_set_get ==
    /\ op \in {"set", "apply_settings"}
    /\ options' = RunConfiguration_get(runconf)
    /\ runconf' = RunConfiguration_set(runconf, RunConfiguration_get(runconf), CONF)
    /\ op' = "set_get"
    /\ ret' = NoReturn
    /\ UNCHANGED CONF
    /\ HistoryUnchanged

NextRC ==
    \/ RC_set
    \/ RC_get
    \/ RC_get_arguments
    \/ RC_get_python_arguments
    \/ RunConfigPage_apply
    \/ RC_set_get

SpecRC == InitRC /\ [][NextRC]_vars

----------------------------------------------------------------------------
(* The program: the store, the filesystem, the two dialogs and the reads.  *)
(* A dialog is modal: while one is open nothing else of the program runs.  *)

\* Stored values a damaged configuration file can hold at start-up.
DamagedStores ==
    {Scalar,
     List(<<Malformed("short")>>),
     List(<<Malformed("scalar")>>),
     List(<<Malformed("str2")>>),
     List(<<Pair("a.py", RunConfiguration_get(RunConfiguration_init(EmptyCONF))),
            Malformed("long")>>)}

Init ==
    /\ CONF = EmptyCONF
    /\ history \in 0..MaxCap
    /\ configurations \in {List(<<>>)} \cup DamagedStores
    /\ files \in SUBSET Files
    /\ one = NoDialog
    /\ multi = NoDialog
    /\ options = defaultconfiguration
    /\ runconf = RunConfiguration_init(CONF)
    /\ op = "start"
    /\ arg = None
    /\ ret = NoReturn
    /\ nedits = 0

Idle == one.state # "open" /\ multi.state # "open"

\* The caller lets go of a dialog once exec_() has returned and it has read
\* the dialog's result.
DialogsGone == one' = NoDialog /\ multi' = NoDialog

RCUnchanged == UNCHANGED <<CONF, options, runconf>>

\* the 'history' setting is changed
CONF_set_history ==
    /\ Idle
    /\ \E n \in 0..MaxCap : n # history /\ history' = n
    /\ op' = "event"
    /\ arg' = None
    /\ ret' = NoReturn
    /\ DialogsGone
    /\ UNCHANGED <<configurations, files, nedits>>
    /\ RCUnchanged

\* a file appears on disk, or disappears
FileChange ==
    /\ Idle
    /\ \E f \in Files :
        files' = IF f \in files THEN files \ {f} ELSE files \cup {f}
    /\ op' = "event"
    /\ arg' = None
    /\ ret' = NoReturn
    /\ DialogsGone
    /\ UNCHANGED <<history, configurations, nedits>>
    /\ RCUnchanged

\* _get_run_configurations()
Call_get_run_configurations ==
    /\ Idle
    /\ LET got == get_run_configurations(configurations, files, history) IN
        /\ ret' = got.ret
        /\ configurations' = got.configurations
    /\ op' = "_get_run_configurations"
    /\ arg' = None
    /\ DialogsGone
    /\ UNCHANGED <<history, files, nedits>>
    /\ RCUnchanged

\* get_run_configuration(fname)
Call_get_run_configuration ==
    /\ Idle
    /\ \E fname \in Files :
        LET got == get_run_configuration(fname, configurations, files,
                                         history, CONF) IN
        /\ ret' = got.ret
        /\ configurations' = got.configurations
        /\ arg' = fname
    /\ op' = "get_run_configuration"
    /\ DialogsGone
    /\ UNCHANGED <<history, files, nedits>>
    /\ RCUnchanged

(* class RunConfigOneDialog *)

\* RunConfigOneDialog.setup(fname)
RunConfigOneDialog_setup ==
    /\ Idle
    /\ \E fname \in Files :
        /\ one' = [state |-> "open", filename |-> fname,
                   runconfigoptions |->
                       RunConfigOptions_set(RunConfigOptions_init(CONF),
                           RunConfiguration_get(RunConfiguration_init(CONF)),
                           CONF)]
    /\ multi' = NoDialog
    /\ op' = "RunConfigOneDialog.setup"
    /\ arg' = None
    /\ ret' = NoReturn
    /\ UNCHANGED <<history, configurations, files, nedits>>
    /\ RCUnchanged

\* the user changes a widget of the dialog
RunConfigOneDialog_edit ==
    /\ one.state = "open"
    /\ nedits < MaxEdits
    /\ \E w \in UserEdits(one.runconfigoptions) :
        /\ w # one.runconfigoptions
        /\ one' = [one EXCEPT !.runconfigoptions = w]
    /\ nedits' = nedits + 1
    /\ op' = "event"
    /\ arg' = None
    /\ ret' = NoReturn
    /\ UNCHANGED <<history, configurations, files, multi>>
    /\ RCUnchanged

\* slip: the new entry is put after the history read
RunConfigOneDialog_accepted_appending(d, stored, fs, cap) ==
    IF ~is_valid(d.runconfigoptions)
    THEN [one |-> d, ret |-> NoReturn, configurations |-> stored]
    ELSE LET got == get_run_configurations(stored, fs, cap) IN
         IF got.ret.raised # ""
         THEN [one |-> d, ret |-> got.ret, configurations |-> got.configurations]
         ELSE LET g == RunConfigOptions_get(d.runconfigoptions) IN
              [one |-> [d EXCEPT !.state = "accepted",
                                 !.runconfigoptions = g.widget],
               ret |-> NoReturn,
               configurations |->
                   set_run_configurations(
                       got.ret.value \o <<Pair(d.filename, g.value)>>, cap)]

\* RunConfigOneDialog.accept(): what it leaves behind
RunConfigOneDialog_accepted(d, stored, fs, cap) ==
    IF ~is_valid(d.runconfigoptions)
    THEN [one |-> d, ret |-> NoReturn, configurations |-> stored]
    ELSE LET got == get_run_configurations(stored, fs, cap) IN
         IF got.ret.raised # ""
         THEN [one |-> d, ret |-> got.ret, configurations |-> got.configurations]
         ELSE LET g == RunConfigOptions_get(d.runconfigoptions) IN
              [one |-> [d EXCEPT !.state = "accepted",
                                 !.runconfigoptions = g.widget],
               ret |-> NoReturn,
               configurations |->
                   set_run_configurations(
                       <<Pair(d.filename, g.value)>> \o got.ret.value, cap)]

RunConfigOneDialog_accept ==
    /\ one.state = "open"
    /\ LET after == RunConfigOneDialog_accepted(one, configurations, files,
                                                history) IN
        /\ one' = after.one
        /\ ret' = after.ret
        /\ configurations' = after.configurations
    /\ op' = "RunConfigOneDialog.accept"
    /\ arg' = None
    /\ UNCHANGED <<history, files, multi, nedits>>
    /\ RCUnchanged

\* the Cancel button
RunConfigOneDialog_reject ==
    /\ one.state = "open"
    /\ one' = NoDialog
    /\ op' = "event"
    /\ arg' = None
    /\ ret' = NoReturn
    /\ UNCHANGED <<history, configurations, files, multi, nedits>>
    /\ RCUnchanged

(* class RunConfigDialog; combo items and stack pages are numbered from 1 *)

\* RunConfigDialog.setup(fname): the dialog and the store it leaves behind
RunConfigDialog_set_up(fname, stored, fs, cap, conf) ==
    LET got == get_run_configurations(stored, fs, cap) IN
    IF got.ret.raised # ""
    THEN [multi |-> NoDialog, ret |-> got.ret,
          configurations |-> got.configurations]
    ELSE LET found == first_match(got.ret.value, fname)
             confs == IF found = 0
                      THEN <<Pair(fname,
                                  RunConfiguration_get(RunConfiguration_init(conf)))>>
                           \o got.ret.value
                      ELSE got.ret.value
             index == IF found = 0 THEN 1 ELSE found
         IN [multi |->
                [state |-> "open",
                 combo |-> [j \in 1..Len(confs) |-> confs[j].filename],
                 stack |-> [j \in 1..Len(confs) |->
                              RunConfigOptions_set(RunConfigOptions_init(conf),
                                                   confs[j].options, conf)],
                 currentIndex |-> index],
             ret |-> NoReturn,
             configurations |-> got.configurations]

RunConfigDialog_setup ==
    /\ Idle
    /\ \E fname \in Files :
        LET after == RunConfigDialog_set_up(fname, configurations, files,
                                            history, CONF) IN
        /\ multi' = after.multi
        /\ ret' = after.ret
        /\ configurations' = after.configurations
    /\ one' = NoDialog
    /\ op' = "RunConfigDialog.setup"
    /\ arg' = None
    /\ UNCHANGED <<history, files, nedits>>
    /\ RCUnchanged

\* the user picks another item of the combo box; the stack follows
RunConfigDialog_select ==
    /\ multi.state = "open"
    /\ \E i \in 1..Len(multi.combo) :
        /\ i # multi.currentIndex
        /\ multi' = [multi EXCEPT !.currentIndex = i]
    /\ op' = "event"
    /\ arg' = None
    /\ ret' = NoReturn
    /\ UNCHANGED <<history, configurations, files, one, nedits>>
    /\ RCUnchanged

\* the user changes a widget of the page shown
RunConfigDialog_edit ==
    /\ multi.state = "open"
    /\ nedits < MaxEdits
    /\ \E w \in UserEdits(multi.stack[multi.currentIndex]) :
        /\ w # multi.stack[multi.currentIndex]
        /\ multi' = [multi EXCEPT !.stack[multi.currentIndex] = w]
    /\ nedits' = nedits + 1
    /\ op' = "event"
    /\ arg' = None
    /\ ret' = NoReturn
    /\ UNCHANGED <<history, configurations, files, one>>
    /\ RCUnchanged

\* the loop of RunConfigDialog.accept() from page index on: only the page
\* shown is validated, the pages before it have been serialized by then
RECURSIVE accept_loop(_, _, _)
accept_loop(d, index, confs) ==
    IF index > Len(d.stack)
    THEN [multi |-> d, configurations |-> confs, returned |-> FALSE]
    ELSE IF index = d.currentIndex /\ ~is_valid(d.stack[index])
    THEN [multi |-> d, configurations |-> confs, returned |-> TRUE]
    ELSE LET g == RunConfigOptions_get(d.stack[index]) IN
         accept_loop([d EXCEPT !.stack[index] = g.widget], index + 1,
                     Append(confs, Pair(d.combo[index], g.value)))

\* RunConfigDialog.accept(): what it leaves behind
RunConfigDialog_accepted(d, stored, cap) ==
    LET loop == accept_loop(d, 1, <<>>) IN
    IF loop.returned
    THEN [multi |-> loop.multi, configurations |-> stored]
    ELSE [multi |-> [loop.multi EXCEPT !.state = "accepted"],
          configurations |-> set_run_configurations(loop.configurations, cap)]

\* Ok or Run: both buttons end in accept()
RunConfigDialog_accept ==
    /\ multi.state = "open"
    /\ LET after == RunConfigDialog_accepted(multi, configurations, history) IN
        /\ multi' = after.multi
        /\ configurations' = after.configurations
    /\ op' = "RunConfigDialog.accept"
    /\ arg' = None
    /\ ret' = NoReturn
    /\ UNCHANGED <<history, files, one, nedits>>
    /\ RCUnchanged

\* the Cancel button
RunConfigDialog_reject ==
    /\ multi.state = "open"
    /\ multi' = NoDialog
    /\ op' = "event"
    /\ arg' = None
    /\ ret' = NoReturn
    /\ UNCHANGED <<history, configurations, files, one, nedits>>
    /\ RCUnchanged

Next ==
    \/ CONF_set_history
    \/ FileChange
    \/ Call_get_run_configurations
    \/ Call_get_run_configuration
    \/ RunConfigOneDialog_setup
    \/ RunConfigOneDialog_edit
    \/ RunConfigOneDialog_accept
    \/ RunConfigOneDialog_reject
    \/ RunConfigDialog_setup
    \/ RunConfigDialog_select
    \/ RunConfigDialog_edit
    \/ RunConfigDialog_accept
    \/ RunConfigDialog_reject

Spec == Init /\ [][Next]_vars

----------------------------------------------------------------------------
(* Properties of the RunConfiguration object, checked under SpecRC *)

ModeKeys == {"current", "systerm", "file_dir", "cw_dir", "fixed_dir"}

OneInterpreterMode(rc) == ~(rc.current /\ rc.systerm)

OneWdirMode(rc) ==
    \/ rc.file_dir /\ ~rc.cw_dir /\ ~rc.fixed_dir
    \/ ~rc.file_dir /\ rc.cw_dir /\ ~rc.fixed_dir
    \/ ~rc.file_dir /\ ~rc.cw_dir /\ rc.fixed_dir

\* C6, as claimed: in every RunConfiguration reachable by construction and
\* any sequence of set(options) calls, current and systerm are never both
\* true and exactly one of file_dir, cw_dir, fixed_dir is true.
C6_ExactlyOneModeAlways ==
    OneInterpreterMode(runconf) /\ OneWdirMode(runconf)

\* C6, amended: the same holds after construction and after every
\* set(options) whose mapping carries none of the keys current, systerm,
\* file_dir, cw_dir, fixed_dir, the defaults in the store being those the
\* Run preferences page writes (one radio button per group); set() copies
\* the five flags verbatim from a mapping that carries them.
C6_ExactlyOneModeFromDefaults ==
    (DOMAIN options \cap ModeKeys = {}) =>
        OneInterpreterMode(runconf) /\ OneWdirMode(runconf)

C6_Witness ==
    /\ op = "set"
    /\ "args" \in DOMAIN options
    /\ CONF_get(CONF, WDIR_USE_CWD_DIR_OPTION, FALSE)
    /\ runconf.cw_dir /\ ~runconf.file_dir /\ ~runconf.fixed_dir

\* the attribute set() assigns from key k
C7_attribute(rc, k) ==
    CASE k = "args" -> rc.args
      [] k = "args/enabled" -> rc.args_enabled
      [] k = "current" -> rc.current
      [] k = "systerm" -> rc.systerm
      [] k = "interact" -> rc.interact
      [] k = "post_mortem" -> rc.post_mortem
      [] k = "python_args" -> rc.python_args
      [] k = "python_args/enabled" -> rc.python_args_enabled
      [] k = "clear_namespace" -> rc.clear_namespace
      [] k = "console_namespace" -> rc.console_namespace
      [] k = "file_dir" -> rc.file_dir
      [] k = "cw_dir" -> rc.cw_dir
      [] k = "fixed_dir" -> rc.fixed_dir
      [] k = "dir" -> rc.dir

\* the 'run' option that backs key k, for the keys that have one
C7_option(k) ==
    CASE k = "current" -> CURRENT_INTERPRETER_OPTION
      [] k = "systerm" -> SYSTERM_INTERPRETER_OPTION
      [] k = "file_dir" -> WDIR_USE_SCRIPT_DIR_OPTION
      [] k = "cw_dir" -> WDIR_USE_CWD_DIR_OPTION
      [] k = "fixed_dir" -> WDIR_USE_FIXED_DIR_OPTION
      [] OTHER -> k

C7_StoreBacked ==
    {"current", "systerm", "interact", "post_mortem", "clear_namespace",
     "console_namespace", "file_dir", "cw_dir", "fixed_dir"}

C7_fallback(k) ==
    IF k \in C7_StoreBacked
    THEN IF C7_option(k) \in DOMAIN CONF THEN CONF[C7_option(k)]
         ELSE k \in {"current", "file_dir"}
    ELSE IF k \in {"args/enabled", "python_args/enabled"} THEN FALSE ELSE ""

\* C7: after set(options) every field equals options[key] when the key is
\* present; otherwise the store-backed flags equal the store's value of their
\* 'run' option (current and file_dir true, the rest false, when the store
\* has none), args, python_args and dir are '' and the two enabled flags are
\* false. set({}) on the default store gives current true and systerm false.
C7_SetTakesOptionElseDefault ==
    /\ op # "apply_settings" =>
          \A k \in BoolKeys \cup ArgKeys \cup {"dir"} :
              C7_attribute(runconf, k) =
                  IF k \in DOMAIN options THEN options[k] ELSE C7_fallback(k)
    /\ (op = "set" /\ DOMAIN options = {} /\ CONF = EmptyCONF) =>
          runconf.current /\ ~runconf.systerm

C7_Witness ==
    /\ op = "set"
    /\ DOMAIN options = {"args/enabled"} /\ options["args/enabled"]
    /\ CONF_get(CONF, "interact", FALSE)
    /\ runconf.args_enabled /\ runconf.interact /\ runconf.current

C8_RoundTripFields(a, b) ==
    /\ a.args_enabled = b.args_enabled
    /\ a.args = b.args
    /\ a.current = b.current
    /\ a.systerm = b.systerm
    /\ a.interact = b.interact
    /\ a.post_mortem = b.post_mortem
    /\ a.python_args_enabled = b.python_args_enabled
    /\ a.python_args = b.python_args
    /\ a.clear_namespace = b.clear_namespace
    /\ a.console_namespace = b.console_namespace
    /\ a.file_dir = b.file_dir
    /\ a.cw_dir = b.cw_dir
    /\ a.fixed_dir = b.fixed_dir
    /\ a.dir = b.dir

\* C8: for a record produced by set(o), set(rc.get()) reproduces the values
\* of args/enabled, args, current, systerm, interact, post_mortem,
\* python_args/enabled, python_args, clear_namespace, console_namespace,
\* file_dir, cw_dir, fixed_dir and dir, whatever the store's defaults are at
\* the second set.
C8_SetOfGetRoundTrips ==
    [][op' = "set_get" => C8_RoundTripFields(runconf', runconf)]_vars

C8_Witness ==
    /\ op = "set_get"
    /\ runconf.current
    /\ ~CONF_get(CONF, CURRENT_INTERPRETER_OPTION, TRUE)

\* C9: get_arguments() returns '' when args_enabled is false and the stored
\* args when it is true, get_python_arguments() likewise with
\* python_args_enabled and python_args; neither changes the record, and
\* get() serializes the stored strings also while the flag is false.
C9_ArgumentsGatedNotDestroyed ==
    [][/\ op' = "get_arguments" =>
            /\ runconf' = runconf
            /\ ret'.value = IF runconf.args_enabled THEN runconf.args ELSE ""
       /\ op' = "get_python_arguments" =>
            /\ runconf' = runconf
            /\ ret'.value = IF runconf.python_args_enabled
                             THEN runconf.python_args ELSE ""
       /\ op' = "get" =>
            /\ ret'.value["args"] = runconf.args
            /\ ret'.value["python_args"] = runconf.python_args]_vars

C9_Witness ==
    /\ op = "get_arguments"
    /\ ~runconf.args_enabled
    /\ runconf.args = "-v"
    /\ ret.value = ""

----------------------------------------------------------------------------
(* Properties of the history and the dialogs, checked under Spec *)

\* the stored value is a list of (filename, options) pairs
StructurallyValid(stored) ==
    /\ stored.kind = "list"
    /\ \A i \in 1..Len(stored.items) : stored.items[i].shape = "pair"

OnDisk(e) == e.filename \in files

\* the stored entries whose file exists, in stored order, cut to the cap
Visible ==
    LET existing == SelectSeq(configurations.items, OnDisk) IN
    IF history < Len(existing) THEN SubSeq(existing, 1, history) ELSE existing

\* the position of the first entry of seq for fname, 0 if there is none
FirstFor(seq, fname) ==
    LET S == {i \in 1..Len(seq) : seq[i].filename = fname} IN
    IF S = {} THEN 0 ELSE CHOOSE i \in S : \A j \in S : i <= j

\* rc is a RunConfiguration built from the options o
BuiltFrom(rc, o) ==
    \A k \in BoolKeys \cup ArgKeys \cup {"dir"} :
        C7_attribute(rc, k) = IF k \in DOMAIN o THEN o[k] ELSE C7_fallback(k)

\* C1: after a save by either dialog, the stored history has no more
\* entries than the 'history' cap in force at the call.
C1_SavedHistoryWithinCap ==
    (one.state = "accepted" \/ multi.state = "accepted") =>
        /\ configurations.kind = "list"
        /\ Len(configurations.items) <= history

C1_Witness ==
    /\ op = "RunConfigDialog.accept"
    /\ multi.state = "accepted"
    /\ history >= 1
    /\ Len(multi.combo) > history
    /\ Len(configurations.items) = history

\* C2: _get_run_configurations and get_run_configuration leave a
\* structurally valid stored history as it is, entries of missing files
\* included; the only write a read makes is the reset of a damaged one.
C2_ReadLeavesStoreAlone ==
    [][op' \in {"_get_run_configurations", "get_run_configuration"} =>
        /\ StructurallyValid(configurations) =>
                configurations' = configurations
        /\ configurations' # configurations =>
                /\ ~StructurallyValid(configurations)
                /\ configurations' = List(<<>>)]_vars

C2_Witness ==
    /\ op = "_get_run_configurations"
    /\ StructurallyValid(configurations)
    /\ \E i \in 1..Len(configurations.items) :
            configurations.items[i].filename \notin files
    /\ Len(configurations.items) <= history
    /\ ret.raised = ""
    /\ Len(ret.value) < Len(configurations.items)

\* C3: _get_run_configurations returns exactly the stored entries whose
\* filename is an existing file, in stored order, cut to the first cap
\* entries; the cap applies after the filter.
C3_ReadFiltersThenCaps ==
    (op = "_get_run_configurations" /\ StructurallyValid(configurations)) =>
        /\ ret.raised = ""
        /\ ~ret.none
        /\ ret.value = Visible

C3_Witness ==
    /\ op = "_get_run_configurations"
    /\ StructurallyValid(configurations)
    /\ Len(configurations.items) = 2
    /\ configurations.items[1].filename \notin files
    /\ configurations.items[2].filename \in files
    /\ history = 1
    /\ ret.raised = ""
    /\ Len(ret.value) = 1
    /\ ret.value[1] = configurations.items[2]

\* C4, as claimed: when the stored value is not a list of (filename,
\* options) pairs, _get_run_configurations propagates no error, resets the
\* stored history to the empty list and returns the empty list.
C4_DamagedStoreResets ==
    [][(op' = "_get_run_configurations" /\ ~StructurallyValid(configurations)) =>
        /\ ret'.raised = ""
        /\ ~ret'.none
        /\ ret'.value = <<>>
        /\ configurations' = List(<<>>)]_vars

\* C5, as claimed: get_run_configuration(fname) returns a RunConfiguration
\* built from the options of the first entry of the stored history whose
\* filename is fname, and None exactly when the stored history has none.
C5_FirstStoredMatch ==
    (op = "get_run_configuration" /\ StructurallyValid(configurations)) =>
        LET i == FirstFor(configurations.items, arg) IN
        /\ ret.raised = ""
        /\ ret.none <=> i = 0
        /\ i # 0 => BuiltFrom(ret.value, configurations.items[i].options)

\* C5, amended: the scan is over what _get_run_configurations returns, the
\* stored entries whose file exists, cut to the cap: the result is built
\* from the first of these for fname, and is None exactly when none of
\* these is for fname.
C5_FirstVisibleMatch ==
    (op = "get_run_configuration" /\ StructurallyValid(configurations)) =>
        LET i == FirstFor(Visible, arg) IN
        /\ ret.raised = ""
        /\ ret.none <=> i = 0
        /\ i # 0 => BuiltFrom(ret.value, Visible[i].options)

C5_Witness ==
    /\ op = "get_run_configuration"
    /\ StructurallyValid(configurations)
    /\ arg \in files
    /\ history = 2
    /\ Len(configurations.items) = 2
    /\ configurations.items[1].filename = arg
    /\ configurations.items[2].filename = arg
    /\ configurations.items[1].options # configurations.items[2].options
    /\ ~ret.none

\* the page has the fixed directory selected and its path is no directory
InvalidFixedDir(w) == w.fixed_dir_radio /\ w.wd_edit \notin Dirs

\* C10, as claimed: when a dialog is accepted and a record being saved has
\* the fixed directory selected with a path that is no existing directory,
\* the save is rejected: the stored history stays as it is and the dialog
\* stays open.
C10_InvalidFixedDirRejected ==
    [][/\ (op' = "RunConfigOneDialog.accept"
            /\ InvalidFixedDir(one.runconfigoptions)) =>
                /\ one'.state = "open"
                /\ configurations' = configurations
       /\ (op' = "RunConfigDialog.accept"
            /\ \E i \in 1..Len(multi.stack) : InvalidFixedDir(multi.stack[i])) =>
                /\ multi'.state = "open"
                /\ configurations' = configurations]_vars

\* seq cut to its first cap entries
CutTo(seq, cap) == IF cap < Len(seq) THEN SubSeq(seq, 1, cap) ELSE seq

\* the options the single-file dialog serializes from its widgets
OneDialogOptions == RunConfigOptions_get(one.runconfigoptions).value

\* a single-file save has just gone through, on a stored list of pairs
SingleFileSave ==
    /\ op' = "RunConfigOneDialog.accept"
    /\ one'.state = "accepted"
    /\ StructurallyValid(configurations)

\* C11, as claimed: a single-file save of (filename, options) makes the
\* stored history equal to (filename, options) followed by the previously
\* stored history in its order, cut to the cap.
C11_SavePrependsToStored ==
    [][SingleFileSave =>
        configurations' =
            List(CutTo(<<Pair(one.filename, OneDialogOptions)>>
                       \o configurations.items, history))]_vars

\* C11, amended: the save prepends (filename, options) to what
\* _get_run_configurations() returns, the previously stored entries whose
\* file exists, in their order, cut to the cap, and cuts the result to the
\* cap: the stored entries of missing files are dropped by the save, and an
\* older entry for the same filename is kept one position down.
C11_SavePrependsToVisible ==
    [][SingleFileSave =>
        configurations' =
            List(CutTo(<<Pair(one.filename, OneDialogOptions)>> \o Visible,
                       history))]_vars

C11_Witness ==
    /\ op = "RunConfigOneDialog.accept"
    /\ one.state = "accepted"
    /\ history = 2
    /\ Len(configurations.items) = 2
    /\ configurations.items[1].filename = one.filename
    /\ configurations.items[2].filename = one.filename
    /\ configurations.items[1].options # configurations.items[2].options

\* C12, as claimed: after the multi-file dialog is set up from the stored
\* history and accepted, the stored history holds at most one entry per
\* filename, also when it held several for one filename beforehand.
C12_AcceptLeavesOneEntryPerFile ==
    (op = "RunConfigDialog.accept" /\ multi.state = "accepted") =>
        \A i, j \in 1..Len(configurations.items) :
            configurations.items[i].filename = configurations.items[j].filename
                => i = j

\* C13: read-your-write. (1) Right after a successful single-file save of
\* (f, o), with f an existing file and the cap at least 1,
\* get_run_configuration(f) returns a RunConfiguration with the fields of
\* set(o). (2) A later single-file save for another file leaves the first
\* readable entry for f the same entry as long as the cap does not cut it
\* off, and (3) every read of f returns the fields of
\* that first readable entry: so the answer stays that of f's newest save
\* until its entry is pushed past the cap.
C13_ReadYourWrite ==
    [][/\ (/\ op = "RunConfigOneDialog.accept"
            /\ one.state = "accepted"
            /\ StructurallyValid(configurations)
            /\ one.filename \in files
            /\ history >= 1
            /\ op' = "get_run_configuration"
            /\ arg' = one.filename) =>
                /\ ret'.raised = ""
                /\ ~ret'.none
                /\ BuiltFrom(ret'.value, OneDialogOptions)
       /\ SingleFileSave =>
            \A f \in files \ {one.filename} :
                LET i == FirstFor(Visible, f)
                    k == FirstFor(Visible', f)
                IN (i # 0 /\ i < history) =>
                    /\ k # 0
                    /\ Visible'[k] = Visible[i]
       /\ (/\ op' = "get_run_configuration"
            /\ StructurallyValid(configurations)
            /\ FirstFor(Visible, arg') # 0) =>
                /\ ret'.raised = ""
                /\ ~ret'.none
                /\ BuiltFrom(ret'.value,
                             Visible[FirstFor(Visible, arg')].options)]_vars

C13_Witness ==
    /\ op = "get_run_configuration"
    /\ history = 2
    /\ files = {"a.py", "b.py"}
    /\ StructurallyValid(configurations)
    /\ Len(configurations.items) = 2
    /\ configurations.items[1].filename # arg
    /\ configurations.items[2].filename = arg
    /\ configurations.items[2].options # configurations.items[1].options
    /\ ~ret.none
    /\ BuiltFrom(ret.value, configurations.items[2].options)
    /\ ~BuiltFrom(ret.value, configurations.items[1].options)

====
